---- MODULE Spec2Model ----
(***************************************************************************)
(* Model of the k6 load test k6-performance-test-with-reports.js           *)
(* (src/unnamed/part_001): the per-VU iteration function, its four         *)
(* scenarios, the endpoint coverage accumulator and the report built by    *)
(* teardown and handleSummary.                                             *)
(*                                                                         *)
(* k6 evaluates the script's init code once in every JavaScript runtime it *)
(* creates: one per virtual user, one for setup/teardown and one for       *)
(* handleSummary.  The module-level object endpointCoverage therefore      *)
(* exists once per runtime (cov[vm]); the k6 metrics (Counter, Rate,       *)
(* Trend) are collected by the k6 engine and are global (metrics).         *)
(* Inside one runtime JavaScript runs to completion, so a handler is one   *)
(* step; the runtimes interleave at the blocking calls http.get/http.post  *)
(* and sleep.                                                              *)
(*                                                                         *)
(* Beside the run of that test (Spec, FairSpec, DegradedSpec) the module   *)
(* models, each on its own: the scenario choice of both default functions  *)
(* (DispatchSpec), the stages of the three scripts (RampSpec), the runner  *)
(* run-performance-tests.sh (RunnerSpec, and GatedSpec with the test's run *)
(* in the place of `k6 run`), handleSummary of k6-mqtt-pub-test.js         *)
(* (MqttSpec), both handleSummary functions called again on the same run   *)
(* result (SummarySpec), the files the runner and k6 leave below reports/  *)
(* (ReportsSpec) and the pacing sleep of the three default functions       *)
(* (PaceSpec).                                                             *)
(***************************************************************************)
EXTENDS Integers, Sequences, FiniteSets, TLC

\* ------------------------------------------------------------------ bounds
\* Iterations of the default function started in one run, over all VUs.
MaxIterations == 2

\* The virtual users of the run.
VUs == {"vu1", "vu2"}

\* The runtimes that evaluate the init code: the VUs, teardown's, handleSummary's.
TeardownVM == "teardown"
SummaryVM == "summary"
VMs == VUs \cup {TeardownVM, SummaryVM}

\* What the server may answer: r.status, r.timings.duration (ms), r.body.
Resp(s, d, b) == [status |-> s, duration |-> d, body |-> b]
Responses ==
    { Resp(200, 50, "Hello, World!"), Resp(200, 50, ""),
      Resp(200, 350, "Hello, World!"), Resp(201, 50, "Hello, World!"),
      Resp(404, 50, ""), Resp(404, 350, "") }
NoResponse == [status |-> -1, duration |-> -1, body |-> "undefined"]

\* Date.now() - startTime is measured around the request: the request's duration
\* plus the time the client spends outside it, in ms.
ClientOverheadMs == 2

\* Math.random() in [0,1), in hundredths.
RandomDraws == {0, 24, 25, 49, 50, 74, 75, 99}

\* --------------------------------------------------------------- endpoints
\* The keys of endpointCoverage, in declaration (Object.entries) order.
EndpointKeys ==
    << "GET /", "GET /user/users", "POST /user/users", "GET /user/users/:id",
       "POST /mqtt/pub", "GET /mqtt/consume", "POST /channel/pub" >>

Endpoints == { EndpointKeys[i] : i \in 1..Len(EndpointKeys) }

ZeroEntry == [hits |-> 0, success |-> 0, errors |-> 0, totalResponseTime |-> 0]

\* const endpointCoverage = {...}: what the init code builds in each runtime.
endpointCoverage == [e \in Endpoints |-> ZeroEntry]

\* The custom metrics declared by the init code, as the engine aggregates them.
\* errors is a Rate: the number of samples added and how many were non-zero.
InitMetrics ==
    [ errors |-> [adds |-> 0, nonzero |-> 0],
      endpoint_hits |-> 0,
      endpoint_response_time |-> [count |-> 0, sum |-> 0],
      successful_requests |-> 0,
      failed_requests |-> 0 ]

\* The requests (steps) of the scenarios, named by their endpoint tag.
Steps == { "health_check", "get_users", "create_user", "get_user_by_id",
           "mqtt_publish", "mqtt_consume", "channel_publish" }

VARIABLES
    phase,      \* where the run is: setup, running, stopping, teardown, ...
    pc,         \* pc[v]: ready | a step whose request is in flight | sleep | retired
    cov,        \* cov[vm]: the runtime's endpointCoverage object
    metrics,    \* the k6 custom metrics
    response,   \* response[v]: the response the VU's scenario is about to check
    responseTime, \* responseTime[v]: Date.now() - startTime of that response
    started,    \* iterations of the default function started so far
    teardownData, \* what teardown returned
    report,     \* the coverage report handleSummary wrote
    dispatch,   \* the default functions' scenario choice, taken on its own
    ramp,       \* the stages of a test and the virtual users they ask for
    runner,     \* run-performance-tests.sh: position, arguments, exit status
    mqtt,       \* k6-mqtt-pub-test.js: the summary data and the report made of it
    reports,    \* run-performance-tests.sh: the reports/ tree and the steps that fill it
    pace        \* one worker of a test: scenario, then sleep, and the sleeps it made

\* The state of the comprehensive test's run.
mainVars == << phase, pc, cov, metrics, response, responseTime, started, teardownData, report >>

\* The state of the parts of the repository that are modelled on their own; a
\* specification of one part leaves the others idle.
aux == << dispatch, ramp, runner, mqtt, reports, pace >>

DispatchIdle == [test |-> "none", testScenario |-> -1, called |-> << >>]

RampIdle == [test |-> "none", clock |-> 0, desired |-> 0]

\* k6 has not been run.
NotRun == [ran |-> FALSE, setupThrew |-> FALSE, failed |-> {}]

\* The runner before main is called with the arguments testType and
\* skipDockerCheck; exit -1 stands for "has not exited".
RunnerAt(testType, skipDockerCheck) ==
    [pc |-> "check_k6", testType |-> testType, skipDockerCheck |-> skipDockerCheck,
     exit |-> -1, failedAt |-> "none", k6 |-> NotRun]

RunnerIdle == [RunnerAt("none", FALSE) EXCEPT !.pc = "idle"]

\* JavaScript values read from the summary data: undefined, or a number.
Undefined == [t |-> "undefined", v |-> 0]

Num(n) == [t |-> "number", v |-> n]

\* The summary data before any was produced.
NoData ==
    [httpReqs |-> Undefined, httpReqFailed |-> Undefined,
     p95 |-> Undefined, p99 |-> Undefined,
     publishP95 |-> 0, publishP99 |-> 0,
     publishErrors |-> [adds |-> 0, nonzero |-> 0], failedRate |-> 0]

MqttIdle == [data |-> NoData, performanceData |-> [written |-> FALSE]]

\* No report directory chosen, made or shown; no file analysed.
NoDir == [testType |-> "none", timestamp |-> 0]

NoFile == [dir |-> NoDir, name |-> ""]

\* The runner's run_performance_test has not been called and reports/ is empty.
ReportsIdle ==
    [pc |-> "idle", testType |-> "none", now |-> 0, report_dir |-> NoDir,
     dirs |-> {}, files |-> {}, k6 |-> -1, analysed |-> NoFile, shown |-> NoDir,
     exit |-> -1]

\* No worker is looked at on its own.
PaceIdle ==
    [test |-> "none", pc |-> "idle", scenario |-> "none", early |-> FALSE,
     slept |-> << >>, ran |-> FALSE]

\* Every part but `part` is idle.
AuxIdleBut(part) ==
    /\ IF part = "mqtt" THEN TRUE ELSE mqtt = MqttIdle
    /\ IF part = "runner" THEN TRUE ELSE runner = RunnerIdle
    /\ IF part = "dispatch" THEN TRUE ELSE dispatch = DispatchIdle
    /\ IF part = "ramp" THEN TRUE ELSE ramp = RampIdle
    /\ IF part = "reports" THEN TRUE ELSE reports = ReportsIdle
    /\ IF part = "pace" THEN TRUE ELSE pace = PaceIdle

vars == << mainVars, aux >>


\* trackEndpoint with a bug: the else branch counts a success instead of an error.
TrackEndpoint_ErrorsNotCounted(st, endpoint, success, time) ==
    LET c == st.coverage
    IN  [coverage |->
            IF endpoint \in DOMAIN c
            THEN [c EXCEPT ![endpoint].hits = @ + 1,
                           ![endpoint].totalResponseTime = @ + time,
                           ![endpoint].success = IF success THEN @ + 1 ELSE @]
            ELSE c,
         metrics |->
            [st.metrics EXCEPT
               !.endpoint_hits = @ + 1,
               !.successful_requests = IF success THEN @ + 1 ELSE @,
               !.failed_requests = IF success THEN @ ELSE @ + 1,
               !.endpoint_response_time =
                   [count |-> @.count + 1, sum |-> @.sum + time]]]

\* trackEndpoint with a bug: failedRequests.add(1) is missing from the else branch.
TrackEndpoint_FailedNotAdded(st, endpoint, success, time) ==
    LET c == st.coverage
    IN  [coverage |->
            IF endpoint \in DOMAIN c
            THEN [c EXCEPT ![endpoint].hits = @ + 1,
                           ![endpoint].totalResponseTime = @ + time,
                           ![endpoint].success = IF success THEN @ + 1 ELSE @,
                           ![endpoint].errors = IF success THEN @ ELSE @ + 1]
            ELSE c,
         metrics |->
            [st.metrics EXCEPT
               !.endpoint_hits = @ + 1,
               !.successful_requests = IF success THEN @ + 1 ELSE @,
               !.endpoint_response_time =
                   [count |-> @.count + 1, sum |-> @.sum + time]]]

\* trackEndpoint with a bug: totalResponseTime = responseTime instead of +=.
TrackEndpoint_TimeAssigned(st, endpoint, success, time) ==
    LET c == st.coverage
    IN  [coverage |->
            IF endpoint \in DOMAIN c
            THEN [c EXCEPT ![endpoint].hits = @ + 1,
                           ![endpoint].totalResponseTime = time,
                           ![endpoint].success = IF success THEN @ + 1 ELSE @,
                           ![endpoint].errors = IF success THEN @ ELSE @ + 1]
            ELSE c,
         metrics |->
            [st.metrics EXCEPT
               !.endpoint_hits = @ + 1,
               !.successful_requests = IF success THEN @ + 1 ELSE @,
               !.failed_requests = IF success THEN @ ELSE @ + 1,
               !.endpoint_response_time =
                   [count |-> @.count + 1, sum |-> @.sum + time]]]

\* ------------------------------------------------------------ trackEndpoint
\* trackEndpoint(endpoint, success, responseTime), on the calling runtime's
\* coverage object c and the engine's metrics m.
TrackEndpoint(st, endpoint, success, time) ==
    LET c == st.coverage
        m == st.metrics
        c1 == IF endpoint \in DOMAIN c
              THEN [c EXCEPT
                      ![endpoint].hits = @ + 1,
                      ![endpoint].totalResponseTime = @ + time,
                      ![endpoint].success = IF success THEN @ + 1 ELSE @,
                      ![endpoint].errors = IF success THEN @ ELSE @ + 1]
              ELSE c
        m1 == IF endpoint \in DOMAIN c
              THEN IF success
                   THEN [m EXCEPT !.successful_requests = @ + 1]
                   ELSE [m EXCEPT !.failed_requests = @ + 1]
              ELSE m
        m2 == [m1 EXCEPT
                 !.endpoint_hits = @ + 1,
                 !.endpoint_response_time =
                     [count |-> @.count + 1, sum |-> @.sum + time]]
    IN  [coverage |-> c1, metrics |-> m2]

\* errorRate.add with a bug: the value added is 0.
ErrorRateAdd_AddsZero(m) ==
    [m EXCEPT !.errors = [adds |-> @.adds + 1, nonzero |-> @.nonzero]]

\* errorRate.add(1)
ErrorRateAdd(m) ==
    [m EXCEPT !.errors = [adds |-> @.adds + 1, nonzero |-> @.nonzero + 1]]

\* ------------------------------------------------------------------ checks
\* r.body && r.body.includes('Hello')
BodyIncludesHello(b) == b = "Hello, World!"

\* The health check with a bug: the response time predicate is missing.
HealthCheckOK_NoBudget(r) ==
    /\ r.status = 200
    /\ (r.body # "" /\ BodyIncludesHello(r.body))

\* check(response, {...}) of each step: true iff every listed predicate holds.
HealthCheckOK(r) ==
    /\ r.status = 200
    /\ r.duration < 100
    /\ (r.body # "" /\ BodyIncludesHello(r.body))

GetUsersOK(r) ==
    /\ r.status = 200
    /\ r.duration < 200

CreateUserOK(r) ==
    /\ (r.status = 200 \/ r.status = 201)
    /\ r.duration < 300

GetUserByIdOK(r) ==
    r.duration < 200

MqttPublishOK(r) ==
    /\ r.status = 200
    /\ r.duration < 500

MqttConsumeOK(r) ==
    r.duration < 300

ChannelPublishOK(r) ==
    /\ r.duration < 400
    /\ (r.status >= 200 /\ r.status < 300)

\* ------------------------------------------------------------------ reports
\* Number.prototype.toFixed(2) of num/den, as hundredths (ties round up).
ToFixed2(num, den) == (2 * 100 * num + den) \div (2 * den)

\* A rendered number: the literal given in the code, or a toFixed(2) string.
Literal(txt) == [form |-> txt, hundredths |-> 0]
Fixed(n, suffix) == [form |-> "toFixed(2)" \o suffix, hundredths |-> n]

\* teardown's loop over Object.entries(endpointCoverage), entries i..n.
RECURSIVE TeardownCount(_, _)
TeardownCount(c, i) ==
    IF i > Len(EndpointKeys)
    THEN [totalEndpoints |-> 0, testedEndpoints |-> 0]
    ELSE LET rest == TeardownCount(c, i + 1)
         IN  [totalEndpoints |-> rest.totalEndpoints + 1,
              testedEndpoints |-> IF c[EndpointKeys[i]].hits > 0
                                  THEN rest.testedEndpoints + 1
                                  ELSE rest.testedEndpoints]

\* The object teardown(data) returns, computed from the runtime's coverage c.
TeardownResult(c) ==
    LET n == TeardownCount(c, 1)
    IN  [ coverageStats |->
            [e \in Endpoints |->
               [ hits |-> c[e].hits,
                 successRate |->
                    IF c[e].hits > 0
                    THEN Fixed(ToFixed2(c[e].success * 100, c[e].hits), "%")
                    ELSE Literal("0%"),
                 avgResponseTime |->
                    IF c[e].hits > 0
                    THEN Fixed(ToFixed2(c[e].totalResponseTime, c[e].hits), "ms")
                    ELSE Literal("0ms"),
                 errors |-> c[e].errors ]],
          coveragePercentage |->
             Fixed(ToFixed2(n.testedEndpoints * 100, n.totalEndpoints), ""),
          totalEndpoints |-> n.totalEndpoints,
          testedEndpoints |-> n.testedEndpoints ]

\* The filter with a bug: stats.success > 0 instead of stats.hits > 0.
RECURSIVE FilterTestedLength_BySuccess(_, _)
FilterTestedLength_BySuccess(c, i) ==
    IF i > Len(EndpointKeys) THEN 0
    ELSE (IF c[EndpointKeys[i]].success > 0 THEN 1 ELSE 0)
         + FilterTestedLength_BySuccess(c, i + 1)

\* Object.values(endpointCoverage).filter(stats => stats.hits > 0).length
RECURSIVE FilterTestedLength(_, _)
FilterTestedLength(c, i) ==
    IF i > Len(EndpointKeys) THEN 0
    ELSE (IF c[EndpointKeys[i]].hits > 0 THEN 1 ELSE 0) + FilterTestedLength(c, i + 1)

\* coverageReport.summary of handleSummary(data).
CoverageSummary(c) ==
    LET totalEndpoints == Len(EndpointKeys)
        testedEndpoints == FilterTestedLength(c, 1)
    IN  [ totalEndpoints |-> totalEndpoints,
          testedEndpoints |-> testedEndpoints,
          coveragePercentage |->
             Fixed(ToFixed2(testedEndpoints * 100, totalEndpoints), "") ]

\* coverageReport with a bug: tested is stats.success > 0 instead of stats.hits > 0.
CoverageReport_TestedBySuccess(c) ==
    [ endpointCoverage |->
        [e \in Endpoints |->
           [ hits |-> c[e].hits,
             successRate |->
                IF c[e].hits > 0
                THEN Fixed(ToFixed2(c[e].success * 100, c[e].hits), "")
                ELSE Literal("0"),
             avgResponseTime |->
                IF c[e].hits > 0
                THEN Fixed(ToFixed2(c[e].totalResponseTime, c[e].hits), "")
                ELSE Literal("0"),
             errors |-> c[e].errors,
             tested |-> c[e].success > 0 ]],
      summary |-> CoverageSummary(c) ]

\* coverageReport of handleSummary(data), computed from the runtime's coverage c.
CoverageReport(c) ==
    [ endpointCoverage |->
        [e \in Endpoints |->
           [ hits |-> c[e].hits,
             successRate |->
                IF c[e].hits > 0
                THEN Fixed(ToFixed2(c[e].success * 100, c[e].hits), "")
                ELSE Literal("0"),
             avgResponseTime |->
                IF c[e].hits > 0
                THEN Fixed(ToFixed2(c[e].totalResponseTime, c[e].hits), "")
                ELSE Literal("0"),
             errors |-> c[e].errors,
             tested |-> c[e].hits > 0 ]],
      summary |-> CoverageSummary(c) ]

NoReport == [written |-> FALSE]

\* The times handleSummary can be called at.
Nows == {1, 2}

\* coverageReport with its testInfo.timestamp, new Date() at the time of the call.
CoverageReportAt(c, now) == [testInfo |-> [timestamp |-> now]] @@ CoverageReport(c)

\* -------------------------------------------------------------------- state
MainInit ==
    /\ phase = "setup"
    /\ pc = [v \in VUs |-> "ready"]
    /\ cov = [vm \in VMs |-> endpointCoverage]
    /\ metrics = InitMetrics
    /\ response = [v \in VUs |-> NoResponse]
    /\ responseTime = [v \in VUs |-> 0]
    /\ started = 0
    /\ teardownData = NoReport
    /\ report = NoReport

\* setup(): GET / must answer 200, otherwise it throws and the run is aborted.
Setup ==
    /\ phase = "setup"
    /\ \E r \in Responses :
          phase' = IF r.status # 200 THEN "aborted" ELSE "running"
    /\ UNCHANGED << aux, pc, cov, metrics, response, responseTime, started, teardownData, report >>

\* The scenario the default function calls for the draw testScenario (hundredths),
\* named by the first request it issues.
ScenarioOf(testScenario) ==
    IF testScenario < 25 THEN "health_check"
    ELSE IF testScenario < 50 THEN "get_users"
    ELSE IF testScenario < 75 THEN "mqtt_publish"
    ELSE "channel_publish"

\* The default function with a bug: an iteration also starts after the last stage
\* has ended.
DefaultFunction_IgnoresStop(v) ==
    /\ phase \in {"running", "stopping"}
    /\ pc[v] = "ready"
    /\ started < MaxIterations
    /\ \E testScenario \in RandomDraws :
          pc' = [pc EXCEPT ![v] = ScenarioOf(testScenario)]
    /\ started' = started + 1
    /\ UNCHANGED << aux, phase, cov, metrics, response, responseTime, teardownData, report >>

\* export default function: draw the scenario and issue its first request.
DefaultFunction(v) ==
    /\ phase = "running"
    /\ pc[v] = "ready"
    /\ started < MaxIterations
    /\ \E testScenario \in RandomDraws :
          pc' = [pc EXCEPT ![v] = ScenarioOf(testScenario)]
    /\ started' = started + 1
    /\ UNCHANGED << aux, phase, cov, metrics, response, responseTime, teardownData, report >>

\* http.get / http.post returns in VU v: the scenario's `response` is assigned the
\* server's answer and `responseTime` the measured Date.now() difference.
HttpResponse(v) ==
    /\ phase \in {"running", "stopping"}
    /\ pc[v] \in Steps
    /\ response[v] = NoResponse
    /\ \E r \in Responses :
          /\ response' = [response EXCEPT ![v] = r]
          /\ responseTime' = [responseTime EXCEPT ![v] = r.duration + ClientOverheadMs]
    /\ UNCHANGED << aux, phase, pc, cov, metrics, started, teardownData, report >>

\* The code of a scenario between two blocking calls, run when the response of
\* the request `step` has arrived: check (success), trackEndpoint, errorRate.add(1)
\* when addsError and the check failed, then the next blocking call: the next
\* request, or, when the scenario returns, the sleep of the default function.
\* `response` and `responseTime` are not read again before they are reassigned.
Step(v, endpoint, success, addsError, next) ==
    LET st == TrackEndpoint([coverage |-> cov[v], metrics |-> metrics],
                            endpoint, success, responseTime[v])
    IN  /\ cov' = [cov EXCEPT ![v] = st.coverage]
        /\ metrics' = IF addsError /\ ~success
                      THEN ErrorRateAdd(st.metrics)
                      ELSE st.metrics
        /\ response' = [response EXCEPT ![v] = NoResponse]
        /\ responseTime' = [responseTime EXCEPT ![v] = 0]
        /\ pc' = [pc EXCEPT ![v] = next]
        /\ UNCHANGED << aux, phase, started, teardownData, report >>

Responded(v, step) ==
    /\ phase \in {"running", "stopping"}
    /\ pc[v] = step
    /\ response[v] # NoResponse

\* testHealthCheck with a bug: a failed check throws, so the iteration ends without
\* reaching the sleep of the default function.
testHealthCheck_Throws(v) ==
    /\ Responded(v, "health_check")
    /\ Step(v, "GET /", HealthCheckOK(response[v]), TRUE,
            IF HealthCheckOK(response[v]) THEN "sleep" ELSE "ready")

testHealthCheck(v) ==
    /\ Responded(v, "health_check")
    /\ Step(v, "GET /", HealthCheckOK(response[v]), TRUE, "sleep")

\* testUserOperations with a bug: the return after the failed first step is missing.
testUserOperations_getUsers_NoReturn(v) ==
    /\ Responded(v, "get_users")
    /\ Step(v, "GET /user/users", GetUsersOK(response[v]), TRUE, "create_user")

\* testUserOperations with a bug: after the first step the third request is
\* issued, the second step left out.
testUserOperations_getUsers_SkipsCreate(v) ==
    /\ Responded(v, "get_users")
    /\ Step(v, "GET /user/users", GetUsersOK(response[v]), TRUE,
            IF GetUsersOK(response[v]) THEN "get_user_by_id" ELSE "sleep")

testUserOperations_getUsers(v) ==
    /\ Responded(v, "get_users")
    /\ Step(v, "GET /user/users", GetUsersOK(response[v]), TRUE,
            IF GetUsersOK(response[v]) THEN "create_user" ELSE "sleep")

testUserOperations_createUser(v) ==
    /\ Responded(v, "create_user")
    /\ Step(v, "POST /user/users", CreateUserOK(response[v]), TRUE,
            IF CreateUserOK(response[v]) THEN "get_user_by_id" ELSE "sleep")

testUserOperations_getUserById(v) ==
    /\ Responded(v, "get_user_by_id")
    /\ Step(v, "GET /user/users/:id", GetUserByIdOK(response[v]), FALSE, "sleep")

testMqttOperations_publish(v) ==
    /\ Responded(v, "mqtt_publish")
    /\ Step(v, "POST /mqtt/pub", MqttPublishOK(response[v]), TRUE,
            IF MqttPublishOK(response[v]) THEN "mqtt_consume" ELSE "sleep")

\* testMqttOperations with a bug: the consume step is tracked under the publish key.
testMqttOperations_consume_WrongKey(v) ==
    /\ Responded(v, "mqtt_consume")
    /\ Step(v, "POST /mqtt/pub", MqttConsumeOK(response[v]), TRUE, "sleep")

testMqttOperations_consume(v) ==
    /\ Responded(v, "mqtt_consume")
    /\ Step(v, "GET /mqtt/consume", MqttConsumeOK(response[v]), TRUE, "sleep")

testChannelOperations(v) ==
    /\ Responded(v, "channel_publish")
    /\ Step(v, "POST /channel/pub", ChannelPublishOK(response[v]), TRUE, "sleep")

\* sleep(Math.random() * 2 + 0.5) returns: the iteration is over.
SleepReturns(v) ==
    /\ phase \in {"running", "stopping"}
    /\ pc[v] = "sleep"
    /\ pc' = [pc EXCEPT ![v] = "ready"]
    /\ UNCHANGED << aux, phase, cov, metrics, response, responseTime, started, teardownData, report >>

\* The last stage of options.stages (target 0) ends: no iteration starts any more.
StagesElapsed ==
    /\ phase = "running"
    /\ phase' = "stopping"
    /\ UNCHANGED << aux, pc, cov, metrics, response, responseTime, started, teardownData, report >>

\* A VU between two iterations is retired.
Retire(v) ==
    /\ phase = "stopping"
    /\ pc[v] = "ready"
    /\ pc' = [pc EXCEPT ![v] = "retired"]
    /\ UNCHANGED << aux, phase, cov, metrics, response, responseTime, started, teardownData, report >>

\* The forced stop with a bug: the request in flight is recorded as an error of
\* its endpoint before the VU is stopped.
ForceCancel_RecordsError(v) ==
    /\ phase = "stopping"
    /\ pc[v] \in Steps \cup {"sleep"}
    /\ response[v] = NoResponse
    /\ pc' = [pc EXCEPT ![v] = "retired"]
    /\ IF pc[v] = "sleep"
       THEN UNCHANGED << cov, metrics >>
       ELSE LET key == IF pc[v] = "health_check" THEN "GET /"
                       ELSE IF pc[v] = "get_users" THEN "GET /user/users"
                       ELSE IF pc[v] = "create_user" THEN "POST /user/users"
                       ELSE IF pc[v] = "get_user_by_id" THEN "GET /user/users/:id"
                       ELSE IF pc[v] = "mqtt_publish" THEN "POST /mqtt/pub"
                       ELSE IF pc[v] = "mqtt_consume" THEN "GET /mqtt/consume"
                       ELSE "POST /channel/pub"
                st == TrackEndpoint([coverage |-> cov[v], metrics |-> metrics],
                                    key, FALSE, 0)
            IN  /\ cov' = [cov EXCEPT ![v] = st.coverage]
                /\ metrics' = st.metrics
    /\ UNCHANGED << aux, phase, response, responseTime, started, teardownData, report >>

\* The graceful stop period ends: a VU still blocked inside its iteration (waiting
\* for a response or sleeping) is interrupted; the rest of its iteration never runs.
ForceCancel(v) ==
    /\ phase = "stopping"
    /\ pc[v] \in Steps \cup {"sleep"}
    /\ response[v] = NoResponse
    /\ pc' = [pc EXCEPT ![v] = "retired"]
    /\ UNCHANGED << aux, phase, cov, metrics, response, responseTime, started, teardownData, report >>

\* teardown with a bug: it is called when the stages have ended, whether or not
\* every VU has stopped.
Teardown_BeforeRetired ==
    /\ phase = "stopping"
    /\ phase' = "teardown"
    /\ teardownData' = TeardownResult(cov[TeardownVM])
    /\ UNCHANGED << aux, pc, cov, metrics, response, responseTime, started, report >>

\* teardown(data), in the setup/teardown runtime, once every VU has stopped.
Teardown ==
    /\ phase = "stopping"
    /\ \A v \in VUs : pc[v] = "retired"
    /\ phase' = "teardown"
    /\ teardownData' = TeardownResult(cov[TeardownVM])
    /\ UNCHANGED << aux, pc, cov, metrics, response, responseTime, started, report >>

\* handleSummary(data), in its own runtime, after teardown.
HandleSummary ==
    /\ phase = "teardown"
    /\ phase' = "done"
    /\ \E now \in Nows : report' = CoverageReportAt(cov[SummaryVM], now)
    /\ UNCHANGED << aux, pc, cov, metrics, response, responseTime, started, teardownData >>

\* ------------------------------------------------- the scenario dispatcher
\* The two test scripts that choose a scenario by a random draw.
Tests == {"comprehensive", "basic"}

\* The scenario the basic test's default function calls for the draw
\* testScenario (hundredths), named like ScenarioOf names them.
BasicScenarioOf_WrongThreshold(testScenario) ==
    IF testScenario < 30 THEN "health_check"
    ELSE IF testScenario < 50 THEN "get_users"
    ELSE IF testScenario < 80 THEN "mqtt_publish"
    ELSE "channel_publish"

BasicScenarioOf(testScenario) ==
    IF testScenario < 30 THEN "health_check"
    ELSE IF testScenario < 60 THEN "get_users"
    ELSE IF testScenario < 80 THEN "mqtt_publish"
    ELSE "channel_publish"

\* Math.random() over the whole of [0,1), in hundredths.
AllDraws == 0..99

DispatchInit ==
    /\ MainInit
    /\ AuxIdleBut("dispatch")
    /\ dispatch \in { [test |-> t, testScenario |-> -1, called |-> << >>] : t \in Tests }

\* One call of a default function: the draw, then the if / else-if chain, which
\* calls the scenario functions recorded in `called`.
DefaultDispatch ==
    /\ dispatch.test \in Tests
    /\ \E testScenario \in AllDraws :
          dispatch' =
             [dispatch EXCEPT
                !.testScenario = testScenario,
                !.called = << IF dispatch.test = "comprehensive"
                              THEN ScenarioOf(testScenario)
                              ELSE BasicScenarioOf(testScenario) >>]
    /\ UNCHANGED << mainVars, ramp, runner, mqtt, reports, pace >>

DispatchNext == DefaultDispatch

DispatchSpec == DispatchInit /\ [][DispatchNext]_vars

\* -------------------------------------------------------------- the pacing
\* One worker of one of the three tests, seen from its default function: the
\* scenario is called and returns, at its end or early, then sleep is called.

PaceTests == {"comprehensive", "basic", "mqtt"}

\* The argument of sleep in ms for the draw `random` (hundredths):
\* Math.random() * 2 + 0.5, 1 and Math.random() * 1 + 0.5 seconds.
SleepMs(test, random) ==
    IF test = "comprehensive" THEN random * 2 * 10 + 500
    ELSE IF test = "basic" THEN 1000
    ELSE random * 1 * 10 + 500

\* The scenarios with a return before their last step.
ShortCircuits == {"get_users", "mqtt_publish"}

\* The default function is called: it draws and calls its scenario; the MQTT
\* test has its one step inline.
PaceDefault ==
    /\ pace.pc = "ready"
    /\ \E testScenario \in RandomDraws :
          pace' = [pace EXCEPT
                     !.pc = "scenario",
                     !.scenario = IF pace.test = "comprehensive"
                                  THEN ScenarioOf(testScenario)
                                  ELSE IF pace.test = "basic"
                                  THEN BasicScenarioOf(testScenario)
                                  ELSE "mqtt_publish",
                     !.early = FALSE,
                     !.slept = << >>]
    /\ UNCHANGED << mainVars, dispatch, ramp, runner, mqtt, reports >>

\* The scenario returns with a bug: a scenario that returns early ends the
\* iteration, without the sleep.
PaceScenarioReturns_EarlySkipsSleep ==
    /\ pace.pc = "scenario"
    /\ \E early \in BOOLEAN, random \in RandomDraws :
          /\ early => (pace.test # "mqtt" /\ pace.scenario \in ShortCircuits)
          /\ pace' = IF early
                     THEN [pace EXCEPT !.pc = "ready", !.early = early, !.ran = TRUE]
                     ELSE [pace EXCEPT
                             !.pc = "sleep", !.early = early,
                             !.slept = Append(@, SleepMs(pace.test, random))]
    /\ UNCHANGED << mainVars, dispatch, ramp, runner, mqtt, reports >>

\* The scenario returns to the default function, from its last step or from a
\* return after a failed step, and the default function calls sleep.
PaceScenarioReturns ==
    /\ pace.pc = "scenario"
    /\ \E early \in BOOLEAN, random \in RandomDraws :
          /\ early => (pace.test # "mqtt" /\ pace.scenario \in ShortCircuits)
          /\ pace' = [pace EXCEPT
                        !.pc = "sleep", !.early = early,
                        !.slept = Append(@, SleepMs(pace.test, random))]
    /\ UNCHANGED << mainVars, dispatch, ramp, runner, mqtt, reports >>

\* sleep returns and with it the default function.
PaceSleepReturns ==
    /\ pace.pc = "sleep"
    /\ pace' = [pace EXCEPT !.pc = "ready", !.ran = TRUE]
    /\ UNCHANGED << mainVars, dispatch, ramp, runner, mqtt, reports >>

PaceInit ==
    /\ MainInit
    /\ AuxIdleBut("pace")
    /\ pace \in { [PaceIdle EXCEPT !.test = t, !.pc = "ready"] : t \in PaceTests }

PaceNext ==
    \/ PaceDefault
    \/ PaceScenarioReturns
    \/ PaceSleepReturns

PaceSpec == PaceInit /\ [][PaceNext]_vars

\* ------------------------------------------------------------- the stages
Stage(duration, target) == [duration |-> duration, target |-> target]

\* options.stages of the three test scripts, durations in seconds.
ComprehensiveStages == << Stage(30, 100), Stage(10, 100), Stage(10, 0) >>

BasicStages == << Stage(30, 100) >>

MqttStages_SteeperSecondStage ==
    << Stage(10, 10), Stage(20, 30), Stage(10, 30), Stage(10, 0) >>

MqttStages == << Stage(10, 10), Stage(20, 20), Stage(10, 20), Stage(10, 0) >>

\* A plan with a stage from 10 to 50 virtual users over 30 s.
ExampleStages == << Stage(10, 10), Stage(30, 50) >>

RampTests == {"comprehensive", "basic", "mqtt", "example"}

StagesOf(test) ==
    CASE test = "comprehensive" -> ComprehensiveStages
      [] test = "basic" -> BasicStages
      [] test = "mqtt" -> MqttStages
      [] OTHER -> ExampleStages

\* The second at which stage i ends (0 for i = 0).
RECURSIVE StageEnd(_, _)
StageEnd(stages, i) ==
    IF i = 0 THEN 0 ELSE stages[i].duration + StageEnd(stages, i - 1)

\* The virtual users a run starts with when the script sets only `stages`.
StartVUs == 1

\* The virtual users stage i starts from: the previous stage's target.
StageFrom(stages, i) == IF i = 1 THEN StartVUs ELSE stages[i - 1].target

\* The stage that second t (0 < t <= total duration) lies in.
StageAt(stages, t) ==
    CHOOSE i \in 1..Len(stages) :
        StageEnd(stages, i - 1) < t /\ t <= StageEnd(stages, i)

\* The virtual users the ramping executor asks for at second t: within a stage
\* it changes the count one user at a time, at equal distances in time.
DesiredVUs(stages, t) ==
    IF t = 0 THEN StartVUs
    ELSE LET i == StageAt(stages, t)
             from == StageFrom(stages, i)
             target == stages[i].target
             elapsed == t - StageEnd(stages, i - 1)
             duration == stages[i].duration
         IN  IF target >= from
             THEN from + ((target - from) * elapsed) \div duration
             ELSE from - ((from - target) * elapsed) \div duration

RampInit ==
    /\ MainInit
    /\ AuxIdleBut("ramp")
    /\ ramp \in { [test |-> t, clock |-> 0, desired |-> StartVUs] : t \in RampTests }

\* One second of the run passes.
RampTick ==
    /\ ramp.test \in RampTests
    /\ ramp.clock < StageEnd(StagesOf(ramp.test), Len(StagesOf(ramp.test)))
    /\ ramp' = [ramp EXCEPT
                  !.clock = ramp.clock + 1,
                  !.desired = DesiredVUs(StagesOf(ramp.test), ramp.clock + 1)]
    /\ UNCHANGED << mainVars, dispatch, runner, mqtt, reports, pace >>

RampNext == RampTick

RampSpec == RampInit /\ [][RampNext]_vars

\* ------------------------------------------------------------- the runner
\* The first argument of the script: the test types main knows, and one it does not.
TestTypes == {"comprehensive", "basic", "results", "unknown"}

\* options.thresholds of the two tests the runner starts.
ComprehensiveThresholds ==
    {"http_req_duration p(95)<500", "http_req_duration p(99)<1000",
     "http_req_failed rate<0.05", "errors rate<0.05",
     "successful_requests count>100", "endpoint_hits count>200"}

BasicThresholds ==
    {"http_req_duration p(95)<500", "http_req_failed rate<0.05", "errors rate<0.05"}

ThresholdsOf(testType) ==
    IF testType = "comprehensive" THEN ComprehensiveThresholds ELSE BasicThresholds

\* What a finished `k6 run` can report: setup threw or not, and the declared
\* thresholds that evaluated to not-passed.
K6Outcomes(testType) ==
    [ran : {TRUE}, setupThrew : BOOLEAN, failed : SUBSET ThresholdsOf(testType)]

\* The exit status of `k6 run`: 107 when the script threw, 99 when a threshold was
\* crossed, 0 otherwise.
K6ExitCode(outcome) ==
    IF outcome.setupThrew THEN 107
    ELSE IF outcome.failed # {} THEN 99
    ELSE 0

\* exit 1 from the function `at`.
Exit1(at) == [runner EXCEPT !.pc = "exited", !.exit = 1, !.failedAt = at]

check_k6 ==
    /\ runner.pc = "check_k6"
    /\ \E installed \in BOOLEAN :
          runner' = IF ~installed THEN Exit1("check_k6")
                    ELSE [runner EXCEPT !.pc = IF runner.skipDockerCheck
                                               THEN "case" ELSE "check_docker"]
    /\ UNCHANGED << mainVars, dispatch, ramp, mqtt, reports, pace >>

check_docker ==
    /\ runner.pc = "check_docker"
    /\ \E dockerInfo \in BOOLEAN :
          runner' = IF ~dockerInfo THEN Exit1("check_docker")
                    ELSE [runner EXCEPT !.pc = "check_server"]
    /\ UNCHANGED << mainVars, dispatch, ramp, mqtt, reports, pace >>

\* The return status of check_server: curl, and when it fails and the containers
\* are up, a second curl after 10 s.
CheckServerStatus(curl, containersUp, curlAgain) ==
    IF curl THEN 0
    ELSE IF containersUp THEN (IF curlAgain THEN 0 ELSE 1)
    ELSE 1

\* main's call of check_server with a bug: the failure is reported but main goes on.
check_server_NoExit ==
    /\ runner.pc = "check_server"
    /\ \E curl \in BOOLEAN, containersUp \in BOOLEAN, curlAgain \in BOOLEAN :
          runner' = IF CheckServerStatus(curl, containersUp, curlAgain) # 0
                    THEN [runner EXCEPT !.pc = "case", !.failedAt = "check_server"]
                    ELSE [runner EXCEPT !.pc = "case"]
    /\ UNCHANGED << mainVars, dispatch, ramp, mqtt, reports, pace >>

\* main: if ! check_server; then ... exit 1
check_server ==
    /\ runner.pc = "check_server"
    /\ \E curl \in BOOLEAN, containersUp \in BOOLEAN, curlAgain \in BOOLEAN :
          runner' = IF CheckServerStatus(curl, containersUp, curlAgain) # 0
                    THEN Exit1("check_server")
                    ELSE [runner EXCEPT !.pc = "case"]
    /\ UNCHANGED << mainVars, dispatch, ramp, mqtt, reports, pace >>

\* main: case $test_type in ... up to the call of k6 or of display_results.
main_case ==
    /\ runner.pc = "case"
    /\ runner' = IF runner.testType \in {"comprehensive", "basic"}
                 THEN [runner EXCEPT !.pc = "k6_run"]
                 ELSE IF runner.testType = "results"
                 THEN [runner EXCEPT !.pc = "display_results"]
                 ELSE Exit1("main")
    /\ UNCHANGED << mainVars, dispatch, ramp, mqtt, reports, pace >>

\* run_performance_test with a bug: the exit status of `k6 run` is ignored.
RunPerformanceTestReturns_IgnoresStatus(code, outcome) ==
    [runner EXCEPT !.pc = "display_results", !.k6 = outcome]

\* run_performance_test after `k6 run` has exited with `code`, and main's
\* `if run_performance_test ...; then display_results else exit 1`.
RunPerformanceTestReturns(code, outcome) ==
    IF code = 0
    THEN [runner EXCEPT !.pc = "display_results", !.k6 = outcome]
    ELSE [Exit1("run_performance_test") EXCEPT !.k6 = outcome]

\* `k6 run` as the runner sees it: it ends with one of its outcomes.
k6_run ==
    /\ runner.pc = "k6_run"
    /\ \E outcome \in K6Outcomes(runner.testType) :
          runner' = RunPerformanceTestReturns(K6ExitCode(outcome), outcome)
    /\ UNCHANGED << mainVars, dispatch, ramp, mqtt, reports, pace >>

\* display_results: under set -e its return 1 (no report directory found) ends
\* the script; after a test run the directory made for it exists.
display_results ==
    /\ runner.pc = "display_results"
    /\ \E found \in BOOLEAN :
          /\ runner.k6.ran => found
          /\ runner' = IF found
                       THEN [runner EXCEPT !.pc = "exited", !.exit = 0]
                       ELSE Exit1("display_results")
    /\ UNCHANGED << mainVars, dispatch, ramp, mqtt, reports, pace >>

RunnerInit ==
    /\ MainInit
    /\ AuxIdleBut("runner")
    /\ runner \in { RunnerAt(t, s) : t \in TestTypes, s \in BOOLEAN }

RunnerNext ==
    \/ check_k6
    \/ check_docker
    \/ check_server
    \/ main_case
    \/ k6_run
    \/ display_results

RunnerSpec == RunnerInit /\ [][RunnerNext]_vars

\* ------------------------------------------------- the reports/ directory
\* The runner from main's case statement on, with the files it and k6 write:
\* reports.dirs are the directories reports/<type>_<timestamp>, reports.files
\* the files below reports/, each with the directory it is in.

\* The test types run_performance_test is called with, as `sort` orders them.
RunTestTypes == << "basic", "comprehensive" >>

\* Values of date +"%Y%m%d_%H%M%S", in the order of time; the digits have a
\* fixed width, so `sort` orders them as time does.
Timestamps == 1..3

\* reports/ itself.
ReportsRoot == [testType |-> "reports", timestamp |-> 0]

\* local report_dir="reports/${test_type}_${timestamp}"
ReportDir(test_type, timestamp) == [testType |-> test_type, timestamp |-> timestamp]

File(dir, name) == [dir |-> dir, name |-> name]

\* The files handleSummary of the comprehensive test returns, by name.
SummaryArtifacts ==
    {"performance-report.html", "performance-summary.txt",
     "performance-data.json", "endpoint-coverage.json"}

\* The directory of the paths handleSummary returns: the literal 'reports/',
\* whatever K6_REPORT_DIR the runner exported.
SummaryDir(K6_REPORT_DIR) == ReportsRoot

\* What a k6 run of the test writes: raw-results.json through --out json, and
\* the comprehensive test's handleSummary its artifacts; k6-performance-test.js
\* has no handleSummary.
K6Files(testType, report_dir, summaryCalled) ==
    {File(report_dir, "raw-results.json")}
      \cup (IF testType = "comprehensive" /\ summaryCalled
            THEN {File(SummaryDir(report_dir), n) : n \in SummaryArtifacts}
            ELSE {})

\* The position of a test type in RunTestTypes.
TypeRank(testType) == CHOOSE i \in DOMAIN RunTestTypes : RunTestTypes[i] = testType

\* `sort` on the names reports/<type>_<timestamp>: by the type's letters first,
\* then by the timestamp.
SortsBefore(a, b) ==
    \/ TypeRank(a.testType) < TypeRank(b.testType)
    \/ a.testType = b.testType /\ a.timestamp < b.timestamp

\* find reports -type d -name "*_*" | sort | tail -1
FindSortTail(dirs) ==
    IF dirs = {} THEN NoDir
    ELSE CHOOSE d \in dirs : \A e \in dirs \ {d} : SortsBefore(e, d)

\* main's case statement: the test types that run k6, and "results".
ReportsAt(testType, now, dirs, files) ==
    [ReportsIdle EXCEPT !.pc = IF testType = "results" THEN "display_results"
                               ELSE "run_performance_test",
                        !.testType = testType, !.now = now,
                        !.dirs = dirs, !.files = files]

\* run_performance_test up to `k6 run`: the timestamped directory is made.
run_performance_test ==
    /\ reports.pc = "run_performance_test"
    /\ LET report_dir == ReportDir(reports.testType, reports.now)
       IN  reports' = [reports EXCEPT !.pc = "k6_run", !.report_dir = report_dir,
                                      !.dirs = @ \cup {report_dir}]
    /\ UNCHANGED << mainVars, dispatch, ramp, runner, mqtt, pace >>

\* `if k6 run "$test_file" --out json=...`: k6 writes its files and exits with
\* 0, 99 or 107; on a non-zero status run_performance_test returns 1 and main
\* exits with 1.  Whether handleSummary runs after a script exception is left
\* open.
k6_run_files ==
    /\ reports.pc = "k6_run"
    /\ \E code \in {0, 99, 107}, summaryCalled \in BOOLEAN :
          /\ code # 107 => summaryCalled
          /\ reports' =
                [reports EXCEPT
                   !.k6 = code,
                   !.files = @ \cup K6Files(reports.testType, reports.report_dir,
                                            summaryCalled),
                   !.pc = IF code = 0 THEN "generate_custom_reports" ELSE "exited",
                   !.exit = IF code = 0 THEN @ ELSE 1]
    /\ UNCHANGED << mainVars, dispatch, ramp, runner, mqtt, pace >>

\* generate_custom_reports with a bug: docker stats is a plain command, and its
\* failure ends the script under set -e.
generate_custom_reports_DockerFatal ==
    /\ reports.pc = "generate_custom_reports"
    /\ \E dockerStats \in BOOLEAN :
          reports' =
            IF ~dockerStats
            THEN [reports EXCEPT !.pc = "exited", !.exit = 1,
                     !.files = @ \cup {File(reports.report_dir, "test-summary.md")}]
            ELSE [reports EXCEPT !.pc = "display_results",
                     !.files = @ \cup {File(reports.report_dir, n) :
                                         n \in {"test-summary.md", "docker-resources.txt",
                                                "analyze-results.py"}}]
    /\ UNCHANGED << mainVars, dispatch, ramp, runner, mqtt, pace >>

\* generate_custom_reports "$report_dir" and the `return 0` after it.  The
\* function runs inside the condition of main's if, where set -e does not act:
\* a failing docker stats (tested by an if of its own) or a failing python3 does
\* not end the script, and the redirections create their files either way.
generate_custom_reports ==
    /\ reports.pc = "generate_custom_reports"
    /\ \E dockerStats \in BOOLEAN, python3 \in BOOLEAN :
          LET dir == reports.report_dir
              coverage == File(dir, "endpoint-coverage.json")
              exists == coverage \in reports.files
              written == {"test-summary.md", "docker-resources.txt",
                          "analyze-results.py"}
                           \cup (IF exists THEN {"coverage-analysis.txt"} ELSE {})
          IN  reports' =
                [reports EXCEPT
                   !.pc = "display_results",
                   !.files = @ \cup {File(dir, n) : n \in written},
                   !.analysed = IF exists THEN coverage ELSE @]
    /\ UNCHANGED << mainVars, dispatch, ramp, runner, mqtt, pace >>

\* display_results without an argument: the last directory in `sort` order is
\* shown; with none, return 1 ends the script under set -e.
display_latest_results ==
    /\ reports.pc = "display_results"
    /\ LET report_dir == FindSortTail(reports.dirs)
       IN  reports' = IF report_dir = NoDir
                      THEN [reports EXCEPT !.pc = "exited", !.exit = 1]
                      ELSE [reports EXCEPT !.pc = "exited", !.exit = 0,
                                           !.shown = report_dir]
    /\ UNCHANGED << mainVars, dispatch, ramp, runner, mqtt, pace >>

\* The runner is started at a time `now`; reports/ holds the directories of
\* earlier runs and, after an earlier comprehensive run, handleSummary's files.
ReportsInit ==
    /\ MainInit
    /\ AuxIdleBut("reports")
    /\ \E testType \in {"comprehensive", "basic", "results"}, now \in Timestamps :
       \E dirs \in SUBSET { ReportDir(RunTestTypes[i], t) :
                               i \in DOMAIN RunTestTypes,
                               t \in { u \in Timestamps : u < now } } :
       \E files \in { {}, {File(ReportsRoot, n) : n \in SummaryArtifacts} } :
          reports = ReportsAt(testType, now, dirs, files)

ReportsNext ==
    \/ run_performance_test
    \/ k6_run_files
    \/ generate_custom_reports
    \/ display_latest_results

ReportsSpec == ReportsInit /\ [][ReportsNext]_vars

\* ------------------------------------------- the MQTT publish test's report
\* The summary data handleSummary is called with, as far as it and the declared
\* thresholds read it. What handleSummary reads may be missing:
\*   httpReqs       data.metrics.http_reqs?.values?.count
\*   httpReqFailed  data.metrics.http_req_failed?.values?.count
\*   p95, p99       data.metrics.http_req_duration?.values?.p95 / .p99   (ms)
\* What the thresholds are declared on:
\*   publishP95, publishP99   mqtt_publish_response_time p(95), p(99)    (ms)
\*   publishErrors            mqtt_publish_errors, fed by errorRate.add(1) only
\*   failedRate               http_req_failed rate, in hundredths
SummaryData ==
    [httpReqs : {Undefined, Num(0), Num(10)},
     httpReqFailed : {Undefined, Num(0), Num(1), Num(5)},
     p95 : {Undefined, Num(900), Num(1100)},
     p99 : {Undefined, Num(1900), Num(2100)},
     publishP95 : {900, 1100},
     publishP99 : {1900, 2100},
     publishErrors : {[adds |-> 0, nonzero |-> 0], [adds |-> 1, nonzero |-> 1]},
     failedRate : {0, 50}]

\* x || 0 for a count.
OrZero(x) == IF x.t = "number" THEN x.v ELSE 0

\* x < n in JavaScript: false when x is undefined.
JsLess(x, n) == x.t = "number" /\ x.v < n

\* x?.toFixed(2) || 0 for a number of milliseconds.
FixedOrZero(x) == IF x.t = "number" THEN Fixed(100 * x.v, "") ELSE Literal("0")

\* performanceData with a bug: the time of the call leaks into a count.
PerformanceData_CountsFromNow(data, now) ==
    LET httpReqs == OrZero(data.httpReqs)
        httpReqFailed == OrZero(data.httpReqFailed)
    IN  [written |-> TRUE,
         testInfo |->
            [timestamp |-> now,
             totalRequests |-> httpReqs + now,
             successfulRequests |-> httpReqs - httpReqFailed,
             failedRequests |-> httpReqFailed,
             successRate |->
                IF httpReqs > 0
                THEN Fixed(ToFixed2((httpReqs - httpReqFailed) * 100, httpReqs), "")
                ELSE Literal("0")],
         metrics |->
            [responseTime |-> [p95 |-> FixedOrZero(data.p95),
                               p99 |-> FixedOrZero(data.p99)],
             errors |->
                [rate |-> IF httpReqs > 0
                          THEN Fixed(ToFixed2(httpReqFailed * 100, httpReqs), "")
                          ELSE Literal(IF httpReqFailed = 0 THEN "NaN" ELSE "Infinity"),
                 count |-> httpReqFailed]],
         thresholds |->
            [p95_under_1000ms |-> JsLess(data.p95, 1000),
             p99_under_2000ms |-> JsLess(data.p99, 2000),
             \* (httpReqFailed / httpReqs) < 0.1, false for 0/0
             error_rate_under_10pct |-> httpReqs > 0 /\ 10 * httpReqFailed < httpReqs]]

\* performanceData as handleSummary builds it from `data` at the time `now`.
PerformanceData(data, now) ==
    LET httpReqs == OrZero(data.httpReqs)
        httpReqFailed == OrZero(data.httpReqFailed)
    IN  [written |-> TRUE,
         testInfo |->
            [timestamp |-> now,
             totalRequests |-> httpReqs,
             successfulRequests |-> httpReqs - httpReqFailed,
             failedRequests |-> httpReqFailed,
             successRate |->
                IF httpReqs > 0
                THEN Fixed(ToFixed2((httpReqs - httpReqFailed) * 100, httpReqs), "")
                ELSE Literal("0")],
         metrics |->
            [responseTime |-> [p95 |-> FixedOrZero(data.p95),
                               p99 |-> FixedOrZero(data.p99)],
             errors |->
                [rate |-> IF httpReqs > 0
                          THEN Fixed(ToFixed2(httpReqFailed * 100, httpReqs), "")
                          ELSE Literal(IF httpReqFailed = 0 THEN "NaN" ELSE "Infinity"),
                 count |-> httpReqFailed]],
         thresholds |->
            [p95_under_1000ms |-> JsLess(data.p95, 1000),
             p99_under_2000ms |-> JsLess(data.p99, 2000),
             \* (httpReqFailed / httpReqs) < 0.1, false for 0/0
             error_rate_under_10pct |-> httpReqs > 0 /\ 10 * httpReqFailed < httpReqs]]

\* The results of the thresholds the MQTT test declares in options.thresholds, on
\* the same summary data. A Rate that received no value has rate 0.
DeclaredThresholds(data) ==
    [publish_p95 |-> data.publishP95 < 1000,
     publish_p99 |-> data.publishP99 < 2000,
     publish_errors |-> \/ data.publishErrors.adds = 0
                        \/ 10 * data.publishErrors.nonzero < data.publishErrors.adds,
     http_req_failed |-> data.failedRate < 10]

MqttInit ==
    /\ MainInit
    /\ AuxIdleBut("mqtt")
    /\ mqtt \in { [data |-> d, performanceData |-> [written |-> FALSE]] : d \in SummaryData }

\* handleSummary(data).
MqttHandleSummary ==
    /\ mqtt.data # NoData
    /\ ~mqtt.performanceData.written
    /\ \E now \in Nows :
          mqtt' = [mqtt EXCEPT !.performanceData = PerformanceData(mqtt.data, now)]
    /\ UNCHANGED << mainVars, dispatch, ramp, runner, reports, pace >>

MqttNext == MqttHandleSummary

MqttSpec == MqttInit /\ [][MqttNext]_vars

\* ---------------------------------------- handleSummary on a fixed run result
\* Entries an endpoint can have at the end of a run: never hit, hit once with
\* success, hit three times with two failures.
EntrySamples ==
    {ZeroEntry,
     [hits |-> 1, success |-> 1, errors |-> 0, totalResponseTime |-> 52],
     [hits |-> 3, success |-> 1, errors |-> 2, totalResponseTime |-> 1000]}

\* handleSummary of the MQTT test called a second time with the same data.
MqttHandleSummaryAgain ==
    /\ mqtt.performanceData.written
    /\ \E now \in Nows :
          /\ now > mqtt.performanceData.testInfo.timestamp
          /\ mqtt' = [mqtt EXCEPT !.performanceData = PerformanceData(mqtt.data, now)]
    /\ UNCHANGED << mainVars, dispatch, ramp, runner, reports, pace >>

\* handleSummary of the comprehensive test called a second time in the same
\* runtime, on the same endpointCoverage.
HandleSummaryAgain ==
    /\ phase = "done"
    /\ \E now \in Nows :
          /\ now > report.testInfo.timestamp
          /\ report' = CoverageReportAt(cov[SummaryVM], now)
    /\ UNCHANGED << aux, phase, pc, cov, metrics, response, responseTime, started, teardownData >>

\* A run result: either the comprehensive test after teardown, with any
\* endpointCoverage in the runtime of handleSummary, or the summary data of the
\* MQTT test.
SummaryInit ==
    \/ /\ AuxIdleBut("none")
       /\ phase = "teardown"
       /\ pc = [v \in VUs |-> "retired"]
       /\ \E c \in [Endpoints -> EntrySamples] :
             cov = [vm \in VMs |-> IF vm = SummaryVM THEN c ELSE endpointCoverage]
       /\ metrics = InitMetrics
       /\ response = [v \in VUs |-> NoResponse]
       /\ responseTime = [v \in VUs |-> 0]
       /\ started = 0
       /\ teardownData = TeardownResult(endpointCoverage)
       /\ report = NoReport
    \/ MqttInit

SummaryNext ==
    \/ HandleSummary
    \/ HandleSummaryAgain
    \/ MqttHandleSummary
    \/ MqttHandleSummaryAgain

SummarySpec == SummaryInit /\ [][SummaryNext]_vars

\* ------------------------------------------------------------ the test run
Init ==
    /\ MainInit
    /\ AuxIdleBut("none")

Next ==
    \/ Setup
    \/ \E v \in VUs : DefaultFunction(v)
    \/ \E v \in VUs : HttpResponse(v)
    \/ \E v \in VUs : testHealthCheck(v)
    \/ \E v \in VUs : testUserOperations_getUsers(v)
    \/ \E v \in VUs : testUserOperations_createUser(v)
    \/ \E v \in VUs : testUserOperations_getUserById(v)
    \/ \E v \in VUs : testMqttOperations_publish(v)
    \/ \E v \in VUs : testMqttOperations_consume(v)
    \/ \E v \in VUs : testChannelOperations(v)
    \/ \E v \in VUs : SleepReturns(v)
    \/ StagesElapsed
    \/ \E v \in VUs : Retire(v)
    \/ \E v \in VUs : ForceCancel(v)
    \/ Teardown
    \/ HandleSummary

Spec == Init /\ [][Next]_vars

\* ------------------------------------- the comprehensive test, run by the runner
\* The errors threshold 'rate<0.05' on the Rate metric m: the rate is the share of
\* non-zero values among the values added, 0 when none was added.
ErrorsRatePasses(m) ==
    IF m.adds = 0 THEN TRUE ELSE 100 * m.nonzero < 5 * m.adds

\* The thresholds of the comprehensive test on its custom metrics.
CustomThresholds ==
    {"errors rate<0.05", "successful_requests count>100", "endpoint_hits count>200"}

\* Those of them that evaluate to not-passed on the metrics m.
CustomFailed(m) ==
    {t \in CustomThresholds :
        \/ t = "errors rate<0.05" /\ ~ErrorsRatePasses(m.errors)
        \/ t = "successful_requests count>100" /\ ~(m.successful_requests > 100)
        \/ t = "endpoint_hits count>200" /\ ~(m.endpoint_hits > 200)}

\* `k6 run` of the comprehensive test has ended, after setup threw or after
\* handleSummary; the thresholds on k6's own metrics may have come out either way.
k6_exits ==
    /\ runner.pc = "k6_run"
    /\ phase \in {"aborted", "done"}
    /\ \E outcome \in K6Outcomes(runner.testType) :
          /\ outcome.setupThrew = (phase = "aborted")
          /\ phase = "done" => outcome.failed \cap CustomThresholds = CustomFailed(metrics)
          /\ runner' = RunPerformanceTestReturns(K6ExitCode(outcome), outcome)
    /\ UNCHANGED << mainVars, dispatch, ramp, mqtt, reports, pace >>

\* k6 runs the test while the runner waits for it.
k6_running ==
    /\ runner.pc = "k6_run"
    /\ Next

GatedInit ==
    /\ MainInit
    /\ AuxIdleBut("runner")
    /\ runner \in { RunnerAt("comprehensive", s) : s \in BOOLEAN }

GatedNext ==
    \/ check_k6
    \/ check_docker
    \/ check_server
    \/ main_case
    \/ k6_running
    \/ k6_exits

\* The runner started for the comprehensive test, with the test's run in the
\* place of `k6 run`. (A run of MaxIterations iterations cannot pass the
\* thresholds 'count>100' and 'count>200', so here k6 never exits with 0 and
\* display_results is not reached.)
GatedSpec == GatedInit /\ [][GatedNext]_vars

\* ------------------------------------------ the test against a failing target
\* The responses with a failure status.
FailureResponses == { r \in Responses : r.status \notin 200..299 }

\* A step of a run in which every scenario request is answered with a failure
\* status. (GET / of setup is answered as the server pleases: with 200 the run
\* starts, otherwise setup throws.)
DegradedNext ==
    /\ Next
    /\ \A v \in VUs : response'[v] \in FailureResponses \cup {NoResponse}

DegradedSpec == Init /\ [][DegradedNext]_vars

\* What VU v does by itself once it can: the code after a response has arrived
\* runs, a sleep returns, and at the end of the run the VU is retired between two
\* iterations or interrupted at a blocking call. (That a response arrives is not
\* assumed.)
VUProgress(v) ==
    \/ testHealthCheck(v)
    \/ testUserOperations_getUsers(v)
    \/ testUserOperations_createUser(v)
    \/ testUserOperations_getUserById(v)
    \/ testMqttOperations_publish(v)
    \/ testMqttOperations_consume(v)
    \/ testChannelOperations(v)
    \/ SleepReturns(v)
    \/ Retire(v)
    \/ ForceCancel(v)

\* What k6 does by itself once it can: the stages elapse, and teardown and
\* handleSummary are called when their time has come.
LifecycleProgress ==
    \/ StagesElapsed
    \/ Teardown
    \/ HandleSummary

\* Something that can go on by itself.
Progress ==
    \/ \E v \in VUs : VUProgress(v)
    \/ LifecycleProgress

\* The run under the least k6's scheduling gives it: as long as something can go
\* on by itself, something does. (No VU is promised its turn before another.)
FairSpec ==
    /\ Spec
    /\ WF_vars(Progress)


\* ================================================================== claims
\* Helpers of the properties below.
Fields == {"hits", "success", "errors", "totalResponseTime"}

RECURSIVE SumOver(_, _)
SumOver(f, S) ==
    IF S = {} THEN 0
    ELSE LET x == CHOOSE y \in S : TRUE
         IN  f[x] + SumOver(f, S \ {x})

\* Steps recorded for endpoint e by all VUs together.
TotalHits(e) == SumOver([v \in VUs |-> cov[v][e].hits], VUs)
TotalErrors(e) == SumOver([v \in VUs |-> cov[v][e].errors], VUs)

TestedSet(c) == { e \in Endpoints : c[e].hits > 0 }

\* C1: in every reachable state every CoverageEntry of every runtime has
\* hits = success + errors, and hits, success, errors and totalResponseTime
\* are all non-negative.
C1_EntryInvariant ==
    \A vm \in VMs : \A e \in Endpoints :
        /\ cov[vm][e].hits = cov[vm][e].success + cov[vm][e].errors
        /\ \A f \in Fields : cov[vm][e][f] >= 0

\* C1 witness: an entry that recorded both a success and an error.
C1_Witness ==
    \E v \in VUs : \E e \in Endpoints :
        /\ cov[v][e].hits >= 2
        /\ cov[v][e].success >= 1
        /\ cov[v][e].errors >= 1

\* C2 (as claimed): when the run has ended, the hits and errors the coverage
\* report shows for each endpoint are the numbers of steps all VUs together
\* recorded for it.
C2_NoLostUpdate ==
    phase = "done" =>
        \A e \in Endpoints :
            /\ report.endpointCoverage[e].hits = TotalHits(e)
            /\ report.endpointCoverage[e].errors = TotalErrors(e)

\* C3: from one state to the next the coverage percentage of a runtime never
\* decreases, and no field of any CoverageEntry ever decreases.
C3_Monotone ==
    [][ \A vm \in VMs :
          /\ CoverageSummary(cov'[vm]).coveragePercentage.hundredths
                >= CoverageSummary(cov[vm]).coveragePercentage.hundredths
          /\ \A e \in Endpoints : \A f \in Fields : cov'[vm][e][f] >= cov[vm][e][f]
      ]_vars

\* C3 witness: a VU whose coverage has grown in two steps (two endpoints tested,
\* one of them recorded with a slow response).
C3_Witness ==
    \E v \in VUs :
        /\ Cardinality(TestedSet(cov[v])) >= 2
        /\ \E e \in Endpoints : cov[v][e].totalResponseTime > 300

\* C4: for the coverage state of every runtime, handleSummary and teardown report
\* totalEndpoints = 7, testedEndpoints = the number of endpoints with hits > 0
\* (at most 7), and a percentage that is testedEndpoints / totalEndpoints * 100
\* to the two decimals printed, between 0 and 100.
C4_PercentageOf(summary, c) ==
    LET h == summary.coveragePercentage.hundredths
        tested == Cardinality(TestedSet(c))
        total == Cardinality(Endpoints)
        diff == total * h - tested * 100 * 100
    IN  /\ summary.totalEndpoints = 7
        /\ summary.totalEndpoints = total
        /\ summary.testedEndpoints = tested
        /\ summary.testedEndpoints <= summary.totalEndpoints
        /\ 2 * diff <= total /\ 2 * diff > -total
        /\ h >= 0 /\ h <= 100 * 100

C4_CoveragePercentage ==
    /\ \A vm \in VMs :
          /\ C4_PercentageOf(CoverageReport(cov[vm]).summary, cov[vm])
          /\ C4_PercentageOf(TeardownResult(cov[vm]), cov[vm])
    /\ phase = "done" => C4_PercentageOf(report.summary, cov[SummaryVM])

\* C4 witness: a coverage state with three of the seven endpoints tested
\* (reported as 42.86).
C4_Witness ==
    \E v \in VUs :
        /\ Cardinality(TestedSet(cov[v])) = 3
        /\ CoverageReport(cov[v]).summary.coveragePercentage.hundredths = 4286


\* C5: every declared endpoint key is in the coverage report handleSummary builds
\* from any coverage state; a never-hit endpoint is there with hits 0, errors 0,
\* success rate '0', average response time '0' and tested = false; and tested is
\* true exactly when hits > 0.
C5_ReportOf(rep, c) ==
    /\ DOMAIN rep.endpointCoverage = Endpoints
    /\ \A e \in Endpoints :
          /\ rep.endpointCoverage[e].tested = (c[e].hits > 0)
          /\ rep.endpointCoverage[e].hits = c[e].hits
          /\ c[e].hits = 0 =>
                rep.endpointCoverage[e] =
                    [ hits |-> 0, errors |-> 0,
                      successRate |-> [form |-> "0", hundredths |-> 0],
                      avgResponseTime |-> [form |-> "0", hundredths |-> 0],
                      tested |-> FALSE ]

C5_EveryEndpointReported ==
    /\ \A vm \in VMs : C5_ReportOf(CoverageReport(cov[vm]), cov[vm])
    /\ phase = "done" => C5_ReportOf(report, cov[SummaryVM])

\* C5 witness: the report has been written, and there is a coverage state with an
\* endpoint that was hit without any success next to endpoints never hit.
C5_Witness ==
    /\ phase = "done"
    /\ \E v \in VUs : \E e1, e2 \in Endpoints :
          /\ cov[v][e1].hits > 0 /\ cov[v][e1].success = 0
          /\ cov[v][e2].hits = 0

\* The endpoint key each request is tracked under.
EndpointOf(step) ==
    CASE step = "health_check" -> "GET /"
      [] step = "get_users" -> "GET /user/users"
      [] step = "create_user" -> "POST /user/users"
      [] step = "get_user_by_id" -> "GET /user/users/:id"
      [] step = "mqtt_publish" -> "POST /mqtt/pub"
      [] step = "mqtt_consume" -> "GET /mqtt/consume"
      [] step = "channel_publish" -> "POST /channel/pub"

\* VU v runs, in this step, the scenario code that follows the response of the
\* request it was waiting for.
Continues(v) ==
    /\ pc[v] \in Steps
    /\ response[v] # NoResponse
    /\ pc'[v] # pc[v]

\* C6 (as claimed): whenever a VU leaves a step whose request was issued, that step
\* has got its trackEndpoint call: one hit more for the step's endpoint key.
C6_EveryIssuedRequestTracked ==
    [][ \A v \in VUs :
          (pc[v] \in Steps /\ pc'[v] # pc[v]) =>
              cov'[v][EndpointOf(pc[v])].hits = cov[v][EndpointOf(pc[v])].hits + 1
      ]_vars

\* C6 (amended): each step whose response is received results in exactly one
\* trackEndpoint call, for that step's endpoint key: one hit more for that key in
\* the VU's coverage, no other entry touched, one more endpoint_hits sample; and
\* nothing else calls trackEndpoint (issuing a request, waiting, sleeping, being
\* stopped leave the VU's coverage as it is).
C6_OneTrackPerResponse ==
    [][ /\ \A v \in VUs :
             IF Continues(v)
             THEN /\ cov'[v][EndpointOf(pc[v])].hits
                        = cov[v][EndpointOf(pc[v])].hits + 1
                  /\ \A e \in Endpoints \ {EndpointOf(pc[v])} :
                        cov'[v][e] = cov[v][e]
                  /\ metrics'.endpoint_hits = metrics.endpoint_hits + 1
             ELSE cov'[v] = cov[v]
        /\ (\A v \in VUs : ~Continues(v)) =>
               metrics'.endpoint_hits = metrics.endpoint_hits
      ]_vars

\* C6 witness: a VU has gone through the three steps of the user operations, each
\* tracked once under its own key.
C6_Witness ==
    \E v \in VUs :
        /\ pc[v] = "sleep"
        /\ cov[v]["GET /user/users"].hits = 1
        /\ cov[v]["POST /user/users"].hits = 1
        /\ cov[v]["GET /user/users/:id"].hits = 1
        /\ metrics.endpoint_hits >= 3

\* The steps whose failure ends the scenario, and the endpoints of the steps that
\* would have followed.
SkippedAfter(step) ==
    CASE step = "get_users" -> {"POST /user/users", "GET /user/users/:id"}
      [] step = "create_user" -> {"GET /user/users/:id"}
      [] step = "mqtt_publish" -> {"GET /mqtt/consume"}
      [] OTHER -> {}

\* C7: when GET /user/users, POST /user/users or POST /mqtt/pub is recorded as an
\* error, the scenario returns at once (the VU goes to its sleep without issuing
\* another request) and the entries of the skipped steps' endpoints are unchanged;
\* until the next iteration starts the VU issues no request and tracks nothing.
C7_ShortCircuit ==
    [][ \A v \in VUs :
          /\ ( /\ Continues(v)
               /\ pc[v] \in {"get_users", "create_user", "mqtt_publish"}
               /\ cov'[v][EndpointOf(pc[v])].errors
                     = cov[v][EndpointOf(pc[v])].errors + 1 )
             => /\ pc'[v] = "sleep"
                /\ \A e \in SkippedAfter(pc[v]) : cov'[v][e] = cov[v][e]
          /\ pc[v] = "sleep" =>
                /\ pc'[v] \in {"sleep", "ready", "retired"}
                /\ cov'[v] = cov[v]
      ]_vars

\* C7 witness: one VU sleeps after a failed GET /user/users and another after a
\* failed POST /mqtt/pub, the later steps' endpoints never hit.
C7_Witness ==
    \E v, w \in VUs :
        /\ pc[v] = "sleep" /\ pc[w] = "sleep"
        /\ cov[v]["GET /user/users"].errors = 1
        /\ cov[v]["POST /user/users"].hits = 0
        /\ cov[v]["GET /user/users/:id"].hits = 0
        /\ cov[w]["POST /mqtt/pub"].errors = 1
        /\ cov[w]["GET /mqtt/consume"].hits = 0

\* The latency budget (ms) and the other assertions each step declares.
C8_Budget(step) ==
    CASE step = "health_check" -> 100
      [] step = "get_users" -> 200
      [] step = "create_user" -> 300
      [] step = "get_user_by_id" -> 200
      [] step = "mqtt_publish" -> 500
      [] step = "mqtt_consume" -> 300
      [] step = "channel_publish" -> 400

C8_Assertions(step, r) ==
    CASE step = "health_check" -> r.status = 200 /\ r.body = "Hello, World!"
      [] step = "get_users" -> r.status = 200
      [] step = "create_user" -> r.status \in {200, 201}
      [] step = "get_user_by_id" -> TRUE
      [] step = "mqtt_publish" -> r.status = 200
      [] step = "mqtt_consume" -> TRUE
      [] step = "channel_publish" -> r.status \in 200..299

\* C8: for every step and every response, the step is recorded as a success
\* (success + 1, errors unchanged) if and only if the response's duration is
\* within the step's latency budget and every assertion the step declares holds;
\* otherwise it is recorded as an error (errors + 1, success unchanged).
C8_SuccessIffAllChecksHold ==
    [][ \A v \in VUs :
          Continues(v) =>
             LET e == EndpointOf(pc[v])
                 ok == /\ response[v].duration < C8_Budget(pc[v])
                       /\ C8_Assertions(pc[v], response[v])
             IN  IF ok
                 THEN /\ cov'[v][e].success = cov[v][e].success + 1
                      /\ cov'[v][e].errors = cov[v][e].errors
                 ELSE /\ cov'[v][e].success = cov[v][e].success
                      /\ cov'[v][e].errors = cov[v][e].errors + 1
      ]_vars

\* C8 witness: a health check answered 200 with the expected body but too slowly
\* is about to be recorded.
C8_Witness ==
    \E v \in VUs :
        /\ pc[v] = "health_check"
        /\ response[v] = Resp(200, 350, "Hello, World!")

\* C9 (as claimed): for every step, a response whose status is not 2xx is recorded
\* as an error for the step's endpoint (errors + 1, success unchanged).
C9_Non2xxIsError ==
    [][ \A v \in VUs :
          (Continues(v) /\ response[v].status \notin 200..299) =>
             /\ cov'[v][EndpointOf(pc[v])].errors
                   = cov[v][EndpointOf(pc[v])].errors + 1
             /\ cov'[v][EndpointOf(pc[v])].success
                   = cov[v][EndpointOf(pc[v])].success
      ]_vars

\* C10: a step recorded as an error leaves the VU alive and the run going: in the
\* same step the VU reaches the sleep of the default function, the run's phase is
\* unchanged, and no VU is ever retired while the run is in its running phase; a
\* sleeping VU can always wake up, and a VU that is ready while the run is running
\* can start its next iteration (up to the model's iteration bound).
C10_FailureKeepsWorker ==
    /\ [][ \A v \in VUs :
             ( /\ Continues(v)
               /\ cov'[v][EndpointOf(pc[v])].errors
                     = cov[v][EndpointOf(pc[v])].errors + 1 )
             => /\ pc'[v] = "sleep"
                /\ phase' = phase
         ]_vars
    /\ [](\A v \in VUs :
             /\ phase = "running" => pc[v] # "retired"
             /\ (pc[v] = "sleep" /\ phase = "running") => ENABLED SleepReturns(v)
             /\ (pc[v] = "ready" /\ phase = "running" /\ started < MaxIterations)
                   => ENABLED DefaultFunction(v))

\* C10 witness: a VU whose earlier iteration recorded an error is waiting for the
\* response of a request of a later iteration.
C10_Witness ==
    \E v \in VUs :
        /\ pc[v] \in Steps
        /\ \E e \in Endpoints \ {EndpointOf(pc[v])} :
              cov[v][e].errors = 1 /\ cov[v][e].hits = 1
        /\ cov[v][EndpointOf(pc[v])].hits = 0
        /\ pc[v] \in {"health_check", "get_users", "mqtt_publish", "channel_publish"}


\* The scenarios in the order of the if / else-if chain, and the weights the two
\* scripts give them (in percent).
ScenarioOrder == << "health_check", "get_users", "mqtt_publish", "channel_publish" >>

C11_Weights(test) ==
    IF test = "comprehensive" THEN << 25, 25, 25, 25 >> ELSE << 30, 30, 20, 20 >>

RECURSIVE SumSeq(_, _)
SumSeq(w, n) == IF n = 0 THEN 0 ELSE w[n] + SumSeq(w, n - 1)

\* C11: for every draw the dispatcher executes exactly one scenario, and scenario
\* i is the one executed exactly when the draw lies in the i-th of the
\* consecutive intervals of length weight_i / sum(weights) that partition [0,1).
C11_WeightedDispatch ==
    dispatch.testScenario >= 0 =>
        LET w == C11_Weights(dispatch.test)
            total == SumSeq(w, Len(w))
        IN  /\ Len(dispatch.called) = 1
            /\ \A i \in 1..Len(ScenarioOrder) :
                  (dispatch.called[1] = ScenarioOrder[i])
                     <=> /\ 100 * SumSeq(w, i - 1) <= dispatch.testScenario * total
                         /\ dispatch.testScenario * total < 100 * SumSeq(w, i)

\* C11 witness: the basic test draws 0.60, the first draw of its 20% MQTT interval.
C11_Witness ==
    /\ dispatch.test = "basic"
    /\ dispatch.testScenario = 60
    /\ dispatch.called = << "mqtt_publish" >>


\* C12: within a stage the desired number of virtual users is the linear
\* interpolation between the previous stage's target and the stage's own target
\* (within one user); in a stage from 10 to 50 over 30 s it is 30 (within one)
\* at +15 s, and in the MQTT plan's second stage (10 to 20 over 20 s) it is 15
\* at the midpoint.
C12_LinearRamp ==
    /\ ramp.clock > 0 =>
          LET stages == StagesOf(ramp.test)
              i == StageAt(stages, ramp.clock)
              from == StageFrom(stages, i)
              elapsed == ramp.clock - StageEnd(stages, i - 1)
              duration == stages[i].duration
              \* the interpolated value, times the stage's duration
              exact == from * duration + (stages[i].target - from) * elapsed
          IN  /\ exact - duration <= ramp.desired * duration
              /\ ramp.desired * duration <= exact + duration
    /\ (ramp.test = "example" /\ ramp.clock = 10 + 15) => ramp.desired \in 29..31
    /\ (ramp.test = "mqtt" /\ ramp.clock = 10 + 10) => ramp.desired = 15
    /\ (ramp.test = "mqtt" /\ ramp.clock = 10) => ramp.desired = 10
    /\ (ramp.test = "mqtt" /\ ramp.clock = 10 + 20) => ramp.desired = 20

\* C12 witness: the MQTT plan at the midpoint of its second stage.
C12_Witness ==
    /\ ramp.test = "mqtt"
    /\ ramp.clock = 20
    /\ ramp.desired = 15


\* The last stage of the comprehensive test has target 0.
StagesEndAtZero ==
    DesiredVUs(ComprehensiveStages,
               StageEnd(ComprehensiveStages, Len(ComprehensiveStages))) = 0

AllRetired == \A v \in VUs : pc[v] = "retired"

\* After the stages have elapsed a step starts no iteration and brings no
\* retired worker back.
NoSpawnAfterStop ==
    phase \in {"stopping", "teardown", "done"} =>
        /\ started' = started
        /\ \A v \in VUs :
              /\ pc[v] = "retired" => pc'[v] = "retired"
              /\ pc[v] = "ready" => pc'[v] \in {"ready", "retired"}

\* C13: once the stages have elapsed (desired concurrency 0), no iteration starts
\* and no retired worker comes back, every worker eventually is retired, and
\* the run terminates (teardown and handleSummary have run).
C13_RunTerminates ==
    /\ StagesEndAtZero
    /\ [][NoSpawnAfterStop]_vars
    /\ [](phase \in {"teardown", "done"} => AllRetired)
    \* the run does not stay forever in the phases between the end of the stages
    \* and the end of handleSummary: from "stopping" it gets to "done"
    /\ []<>(phase \notin {"stopping", "teardown"})

\* C13 witness: the run is over, every worker is retired, and iterations had run.
C13_Witness ==
    /\ phase = "done"
    /\ AllRetired
    /\ started > 0


\* No iteration has started and no coverage entry, metric or report was written.
Untouched ==
    /\ \A vm \in VMs : cov[vm] = endpointCoverage
    /\ metrics = InitMetrics
    /\ started = 0
    /\ \A v \in VUs : pc[v] = "ready"
    /\ teardownData = NoReport
    /\ report = NoReport

\* Once the run is aborted nothing of the test's state changes any more.
NothingAfterAbort ==
    (phase = "aborted" \/ runner.failedAt = "check_server") => UNCHANGED mainVars

C15_AbsentMetricNotPassed ==
    mqtt.performanceData.written =>
        LET flags == mqtt.performanceData.thresholds
        IN  /\ mqtt.data.p95 = Undefined => ~flags.p95_under_1000ms
            /\ mqtt.data.p99 = Undefined => ~flags.p99_under_2000ms
            /\ (mqtt.data.httpReqs = Undefined \/ mqtt.data.httpReqFailed = Undefined)
                  => ~flags.error_rate_under_10pct


\* The metric values of the two reports: everything but the time of the call.
CoverageMetricValues(rep) ==
    [endpointCoverage |-> rep.endpointCoverage, summary |-> rep.summary]

MqttMetricValues(pd) ==
    [totalRequests |-> pd.testInfo.totalRequests,
     successfulRequests |-> pd.testInfo.successfulRequests,
     failedRequests |-> pd.testInfo.failedRequests,
     successRate |-> pd.testInfo.successRate,
     metrics |-> pd.metrics,
     thresholds |-> pd.thresholds]

\* A step leaves what handleSummary reads as it was, and a report written over
\* an earlier one has the same metric values.
SummaryStepIdempotent ==
    /\ cov' = cov
    /\ metrics' = metrics
    /\ mqtt'.data = mqtt.data
    /\ report # NoReport =>
          CoverageMetricValues(report') = CoverageMetricValues(report)
    /\ mqtt.performanceData.written =>
          MqttMetricValues(mqtt'.performanceData) = MqttMetricValues(mqtt.performanceData)

C17_FlagsEqualDeclaredThresholds ==
    mqtt.performanceData.written =>
        LET flags == mqtt.performanceData.thresholds
            declared == DeclaredThresholds(mqtt.data)
        IN  /\ flags.p95_under_1000ms = declared.publish_p95
            /\ flags.p99_under_2000ms = declared.publish_p99
            /\ flags.error_rate_under_10pct = declared.publish_errors


\* The runner has exited after a test run it started.
RunEnded == runner.pc = "exited" /\ runner.k6.ran

\* C18 as stated: a test run started through the runner ends with a non-zero
\* status if and only if at least one declared threshold was not passed.
C18_FailureIffThresholdFailed ==
    RunEnded => (runner.exit # 0 <=> runner.k6.failed # {})

\* C18: a test run started through the runner ends with a non-zero status if and
\* only if a declared threshold was not passed or the run was aborted by setup;
\* and when the runner is asked for a test but starts none, it exits with 1 from
\* one of its checks.
C18_FailureIffThresholdFailedOrAborted ==
    /\ RunEnded =>
          (runner.exit # 0 <=> (runner.k6.failed # {} \/ runner.k6.setupThrew))
    /\ (/\ runner.pc = "exited"
        /\ ~runner.k6.ran
        /\ runner.testType \in {"comprehensive", "basic"})
          => /\ runner.exit = 1
             /\ runner.failedAt \in {"check_k6", "check_docker", "check_server"}

\* C18 witness: the basic test ran to its end, only the errors threshold was not
\* passed, and the runner exited with 1.
C18_Witness ==
    /\ RunEnded
    /\ runner.testType = "basic"
    /\ ~runner.k6.setupThrew
    /\ runner.k6.failed = {"errors rate<0.05"}
    /\ runner.exit = 1


\* Steps attempted and steps failed in the whole run.
AllHits == SumOver([e \in Endpoints |-> TotalHits(e)], Endpoints)

AllErrors == SumOver([e \in Endpoints |-> TotalErrors(e)], Endpoints)

\* C19: the value of the errors Rate metric (the share of non-zero values among
\* the values added, 0 when none was added) equals total errors / total hits.
C19_ErrorsRateIsErrorShare ==
    AllHits > 0 =>
        IF metrics.errors.adds = 0
        THEN AllErrors = 0
        ELSE metrics.errors.nonzero * AllHits = AllErrors * metrics.errors.adds


\* Every endpoint that was hit, in whichever runtime, has only errors.
OnlyErrors ==
    \A vm \in VMs : \A e \in Endpoints :
        cov[vm][e].hits > 0 =>
            /\ cov[vm][e].hits = cov[vm][e].errors
            /\ cov[vm][e].success = 0

\* C20 as stated: in a run where the target always returns a failure status,
\* after the run every endpoint that was hit has hits = errors and success = 0,
\* and the errors threshold 'rate<0.05' is not passed.
C20_FailingTargetFailsThreshold ==
    phase \in {"aborted", "done"} =>
        /\ OnlyErrors
        /\ ~ErrorsRatePasses(metrics.errors)

\* C20: in a run whose scenario requests are all answered with a failure status,
\* every endpoint that was hit has hits = errors and success = 0, and once a step
\* has been recorded the errors threshold 'rate<0.05' is not passed.
C20_FailingScenariosFailThreshold ==
    /\ OnlyErrors
    /\ AllHits > 0 => ~ErrorsRatePasses(metrics.errors)

\* C20 witness: the run is over, both VUs recorded a failed step, and the errors
\* rate is 1.
C20_Witness ==
    /\ phase = "done"
    /\ cov["vu1"]["GET /"].errors = 1
    /\ cov["vu2"]["POST /mqtt/pub"].errors = 1
    /\ metrics.errors = [adds |-> 2, nonzero |-> 2]

\* The runner has got past run_performance_test after a k6 run that exited with 0.
RunSucceeded ==
    /\ reports.k6 = 0
    /\ reports.pc \in {"display_results", "exited"}

\* C21: after a successful comprehensive run through the runner, the four files
\* handleSummary writes are in that run's timestamped report directory, and the
\* coverage analysis has been run on that directory's endpoint-coverage.json.
C21_ArtifactsInRunDirectory ==
    (RunSucceeded /\ reports.testType = "comprehensive") =>
        /\ \A n \in SummaryArtifacts : File(reports.report_dir, n) \in reports.files
        /\ reports.analysed = File(reports.report_dir, "endpoint-coverage.json")

\* C26: a failure while the additional reports are generated does not change
\* the outcome: after a k6 run that exited with 0 the runner goes on to
\* display_results, shows a directory and exits with 0, and generate_custom_reports
\* itself never ends the script.
C26_ReportFailureKeepsOutcome ==
    /\ RunSucceeded => reports.exit \in {-1, 0}
    /\ (RunSucceeded /\ reports.pc = "exited") =>
           reports.exit = 0 /\ reports.shown # NoDir
    /\ (reports.pc = "exited" /\ reports.exit = 1 /\ reports.testType # "results") =>
           reports.k6 \in {99, 107}

\* C26 witness: the k6 run succeeded, the run's directory holds no
\* endpoint-coverage.json and no analysis was made, and the results were shown
\* with exit status 0.
C26_Witness ==
    /\ reports.pc = "exited"
    /\ reports.k6 = 0
    /\ reports.testType = "comprehensive"
    /\ File(reports.report_dir, "endpoint-coverage.json") \notin reports.files
    /\ File(reports.report_dir, "coverage-analysis.txt") \notin reports.files
    /\ reports.analysed = NoFile
    /\ reports.exit = 0
    /\ reports.shown # NoDir

\* The report directory made last.
MostRecent(dirs) == CHOOSE d \in dirs : \A e \in dirs : e.timestamp <= d.timestamp

\* C27: display_results without an argument shows the most recently created
\* report directory, whatever the test types of the existing ones; right after a
\* run it shows the directory of that run.
C27_ShowsMostRecentDirectory ==
    (reports.pc = "exited" /\ reports.shown # NoDir) =>
        /\ reports.shown = MostRecent(reports.dirs)
        /\ reports.report_dir # NoDir => reports.shown = reports.report_dir

\* The step declared before `step` in its scenario; "none" for a first step.
PreviousStep(step) ==
    CASE step = "create_user" -> "get_users"
      [] step = "get_user_by_id" -> "create_user"
      [] step = "mqtt_consume" -> "mqtt_publish"
      [] OTHER -> "none"

\* VU v issues a request in this step.
Issues(v) == pc'[v] \in Steps /\ pc'[v] # pc[v]

StepsInOrder ==
    \A v \in VUs :
        /\ Issues(v) =>
              /\ response'[v] = NoResponse
              /\ IF PreviousStep(pc'[v]) = "none"
                 THEN pc[v] = "ready"
                 ELSE /\ pc[v] = PreviousStep(pc'[v])
                      /\ response[v] # NoResponse
                      /\ cov'[v][EndpointOf(pc[v])].hits
                            = cov[v][EndpointOf(pc[v])].hits + 1
                      /\ cov'[v][EndpointOf(pc[v])].success
                            = cov[v][EndpointOf(pc[v])].success + 1
        /\ (pc[v] \in Steps /\ response[v] = NoResponse) =>
              /\ pc'[v] \in {pc[v], "retired"}
              /\ cov'[v] = cov[v]

\* C22: within one iteration the steps are issued in their declared order and one
\* at a time: a scenario's first request is issued by a VU that is between two
\* blocking calls of no other step, every later request only in the step in which
\* the response of the step declared before it was checked and recorded by
\* trackEndpoint, and while a request is in flight its VU issues no other request
\* and records nothing.
C22_StepsInDeclaredOrder == [][StepsInOrder]_vars

\* C22 witness: one VU waits for GET /user/users/:id with the two earlier user
\* steps recorded once each, another for GET /mqtt/consume with the publish
\* recorded.
C22_Witness ==
    \E v, w \in VUs :
        /\ pc[v] = "get_user_by_id" /\ response[v] = NoResponse
        /\ cov[v]["GET /user/users"].hits = 1
        /\ cov[v]["POST /user/users"].hits = 1
        /\ cov[v]["GET /user/users/:id"].hits = 0
        /\ pc[w] = "mqtt_consume" /\ response[w] = NoResponse
        /\ cov[w]["POST /mqtt/pub"].hits = 1
        /\ cov[w]["GET /mqtt/consume"].hits = 0

\* The configured range of the sleep of each test, in ms.
InSleepRange(test, ms) ==
    IF test = "comprehensive" THEN 500 <= ms /\ ms <= 2500
    ELSE IF test = "basic" THEN ms = 1000
    ELSE 500 <= ms /\ ms <= 1500

PacedOnce ==
    /\ (pace.pc = "scenario" /\ pace'.pc # "scenario") =>
          /\ pace'.pc = "sleep"
          /\ Len(pace'.slept) = 1
    /\ (pace'.pc = "scenario" /\ pace.pc # "scenario" /\ pace.ran) =>
          /\ Len(pace.slept) = 1
          /\ InSleepRange(pace.test, pace.slept[1])

\* C23: between two consecutive scenario executions of a worker there is exactly
\* one sleep, also when the earlier scenario returned early, and its duration is
\* in the range of the test: 0.5 to 2.5 s (comprehensive), 1 s (basic), 0.5 to
\* 1.5 s (MQTT).
C23_OneSleepBetweenScenarios == [][PacedOnce]_vars

\* C23 witness: a worker of the basic test starts its next scenario after a
\* scenario that returned early and one sleep of 1 s.
C23_Witness ==
    /\ pace.test = "basic"
    /\ pace.pc = "ready"
    /\ pace.ran
    /\ pace.early
    /\ pace.slept = << 1000 >>

\* VU v is stopped while its request is in flight.
CancelledInFlight(v) ==
    /\ pc[v] \in Steps
    /\ response[v] = NoResponse
    /\ pc'[v] = "retired"

DiscardsInFlight ==
    \A v \in VUs :
        /\ CancelledInFlight(v) => (cov' = cov /\ metrics' = metrics)
        /\ pc[v] = "retired" => (pc'[v] = "retired" /\ cov'[v] = cov[v])

\* C24: when a VU is forcibly stopped while a request is in flight, that request
\* changes no CoverageEntry and no counter or rate (it is recorded neither as a
\* success nor as an error), and what the VU recorded before stays as it is, in
\* that step and ever after.
C24_CancelledRequestDiscarded == [][DiscardsInFlight]_vars

\* C24 witness: a VU was stopped while waiting for POST /user/users: its GET
\* /user/users of the same iteration is recorded as a success, and nothing is
\* recorded for POST /user/users.
C24_Witness ==
    \E v \in VUs :
        /\ pc[v] = "retired"
        /\ cov[v]["GET /user/users"] =
              [hits |-> 1, success |-> 1, errors |-> 0,
               totalResponseTime |-> 50 + ClientOverheadMs]
        /\ cov[v]["POST /user/users"] = ZeroEntry
        /\ metrics.endpoint_hits = 1
        /\ metrics.successful_requests = 1
        /\ metrics.failed_requests = 0
        /\ metrics.errors.adds = 0

\* teardown has started its coverage computation, or handleSummary has.
FinalComputationStarted == phase \in {"teardown", "done"}

NoTrackAfterSnapshot ==
    FinalComputationStarted =>
        /\ cov' = cov
        /\ metrics' = metrics
        /\ pc' = pc
        /\ teardownData' = teardownData

\* C25: teardown and handleSummary read the coverage only after every VU has been
\* retired; from the moment teardown's computation starts no trackEndpoint call
\* happens (no CoverageEntry and no metric changes, no VU moves), so every entry
\* they read is whole (hits = success + errors) and what teardown computed is
\* still what handleSummary's runtime holds.
C25_SnapshotAfterWorkersRetired ==
    /\ [](FinalComputationStarted =>
             /\ \A v \in VUs : pc[v] = "retired" /\ response[v] = NoResponse
             /\ \A vm \in VMs : \A e \in Endpoints :
                    cov[vm][e].hits = cov[vm][e].success + cov[vm][e].errors)
    /\ [][NoTrackAfterSnapshot]_vars
    /\ [](phase = "done" =>
             /\ teardownData = TeardownResult(cov[TeardownVM])
             /\ report.endpointCoverage = CoverageReport(cov[SummaryVM]).endpointCoverage)

\* C25 witness: the report is written after a run in which both VUs recorded
\* steps, one of them stopped while a request was in flight.
C25_Witness ==
    /\ phase = "done"
    /\ report # NoReport
    /\ \A v \in VUs : pc[v] = "retired"
    /\ \E v, w \in VUs :
          /\ v # w
          /\ cov[v]["GET /user/users"].success = 1
          /\ cov[v]["POST /user/users"].hits = 0
          /\ cov[w]["GET /"].errors = 1

\* The sum of field f over the CoverageEntries of every runtime.
SumField(f) ==
    SumOver([vm \in VMs |-> SumOver([e \in Endpoints |-> cov[vm][e][f]], Endpoints)],
            VMs)

\* C28: after any sequence of trackEndpoint calls made by the scenarios the
\* counters agree with each other and with the CoverageEntries of all runtimes
\* taken together: endpoint_hits = successful_requests + failed_requests = the sum
\* of hits, successful_requests = the sum of success, failed_requests = the sum
\* of errors (and endpoint_response_time has one sample per hit, their sum the
\* sum of totalResponseTime).
C28_CountersAgree ==
    /\ metrics.endpoint_hits = metrics.successful_requests + metrics.failed_requests
    /\ metrics.endpoint_hits = SumField("hits")
    /\ metrics.successful_requests = SumField("success")
    /\ metrics.failed_requests = SumField("errors")
    /\ metrics.endpoint_response_time.count = metrics.endpoint_hits
    /\ metrics.endpoint_response_time.sum = SumField("totalResponseTime")

\* C28 witness: two VUs have recorded steps, one a success and one an error.
C28_Witness ==
    /\ metrics.endpoint_hits = 2
    /\ metrics.successful_requests = 1
    /\ metrics.failed_requests = 1
    /\ \E v, w \in VUs :
          /\ v # w
          /\ cov[v]["POST /channel/pub"].success = 1
          /\ cov[w]["POST /mqtt/pub"].errors = 1

\* C29: every step recorded as an error in a CoverageEntry also adds one failure
\* observation to the errors rate, so the number of failure observations in
\* errors equals the sum of errors over all CoverageEntries, the failures of the
\* GET /user/users/:id step included.
C29_EveryErrorObserved == metrics.errors.nonzero = SumField("errors")

\* C30: every rate and average the reports derive by division is well defined
\* for zero hits or zero requests: in the coverage report an endpoint with
\* hits = 0 has success rate '0' and average response time '0', and the MQTT
\* report of a run with zero total requests has success rate '0' and error rate
\* 0, never a not-a-number value.
C30_ZeroDenominatorsDefined ==
    /\ report # NoReport =>
          \A e \in Endpoints :
              report.endpointCoverage[e].hits = 0 =>
                  /\ report.endpointCoverage[e].successRate = Literal("0")
                  /\ report.endpointCoverage[e].avgResponseTime = Literal("0")
    /\ (mqtt.performanceData.written
          /\ mqtt.performanceData.testInfo.totalRequests = 0) =>
              /\ mqtt.performanceData.testInfo.successRate = Literal("0")
              /\ mqtt.performanceData.metrics.errors.rate = Literal("0")
====
